---- MODULE Spec2Model ----
(***************************************************************************)
(* A model of blizzconv's DUN handling.                                    *)
(*                                                                         *)
(*   package dun      (src/configs/dun/dun.go)   Parse(dunName): the       *)
(*                    full-stream parser: header, square plane, four dense *)
(*                    trailing planes.                                     *)
(*   package dunmini  (src/unnamed/part_000)     Parse(squareIDsPlus1,     *)
(*                    colCount, rowCount): the fixed-size parser, and      *)
(*                    Image, the isometric compositor.                     *)
(*   dunsquares_dump  (src/configs/cmd/dunsquares_dump) drives dunmini:    *)
(*                    New, Parse, Image once per palette.                  *)
(*                                                                         *)
(* A Dungeon is [ColMax][RowMax]map[string]int.  It is modelled sparsely,  *)
(* as a function whose domain is the set of <<col, row, key>> triples that *)
(* are present in the maps: a key that is absent from a cell's map is      *)
(* absent from the domain, a key stored with value 0 is in the domain.     *)
(*                                                                         *)
(* The DUN file is revealed as it is read: `file` holds the bytes consumed *)
(* so far and every read chooses what the file holds next (a whole value,  *)
(* a single stray byte, or nothing).  `atEnd` records that a read reached  *)
(* the end of the input, so Len(file) is then the length of the file.      *)
(*                                                                         *)
(* Four specifications:                                                    *)
(*   Spec        the sequential process: files parsed and composited one   *)
(*               after another;                                            *)
(*   CallSpec    single calls of GetPillarRect, of Image's canvas and of   *)
(*               GetLevelName, over ranges of arguments;                   *)
(*   ClientSpec  Spec with a client that stores -1 in a parsed grid;       *)
(*   ParSpec     two Image calls that run in parallel.                     *)
(***************************************************************************)
EXTENDS Integers, Sequences, FiniteSets, TLC

VARIABLES
    pkg,         \* "dun" | "dunmini": the package the process runs
    pc,          \* where the process is
    ret,         \* what the last Parse returned
    panicAt,     \* the slice or array whose index was out of range (pc = "panic")
    dungeon,     \* the grid: <<col, row, key>> -> int
    file,        \* bytes of the DUN file consumed so far
    atEnd,       \* a read found the end of the input
    dunQWidth, dunQHeight, colStart, rowStart, seed,
    plane,       \* 0: squareNumsPlus1, 1..4: the trailing planes
    i, j, col, row,
    squareIDsPlus1, colCount, rowCount, k,      \* dunmini.Parse
    arches, decodes,                            \* the package variable of Image
    imgCols, imgRows, log,                      \* Image and what it has drawn
    calls,       \* the number of Image calls of the process
    dumps,       \* the number of DUN files the process is done with
    call,        \* a single call of a function of the package, with its result
    par          \* two Image calls that run in parallel: where each one is

vars == <<pkg, pc, ret, panicAt, dungeon, file, atEnd, dunQWidth, dunQHeight, colStart,
          rowStart, seed, plane, i, j, col, row, squareIDsPlus1, colCount,
          rowCount, k, arches, decodes, imgCols, imgRows, log, calls, dumps,
          call, par>>

parseVars == <<file, atEnd, dunQWidth, dunQHeight, colStart, rowStart, seed, plane>>
miniVars == <<squareIDsPlus1, colCount, rowCount, k>>
imageVars == <<imgCols, imgRows, log>>
\* What the sequential process leaves alone: the single calls and the
\* parallel calls are separate runs.
otherVars == <<call, par>>

(***************************************************************************)
(* Program constants.                                                      *)
(***************************************************************************)
ColMax == 112
RowMax == 112

\* Pillar ids for layout 1: the floor shadows for arches.
PillarIDFloorShadowArchSe_1 == 10
PillarIDFloorShadowArchSe_2 == 248
PillarIDFloorShadowArchSe_3 == 324
PillarIDFloorShadowArchSe_4 == 330
PillarIDFloorShadowArchSe_5 == 343
PillarIDFloorShadowArchSe_6 == 420
PillarIDFloorShadowArchSw2_1 == 258
PillarIDFloorShadowArchSwBroken2_1 == 254
PillarIDFloorShadowArchSw_1 == 11
PillarIDFloorShadowArchSw_2 == 70
PillarIDFloorShadowArchSw_3 == 210
PillarIDFloorShadowArchSw_4 == 320
PillarIDFloorShadowArchSw_5 == 340
PillarIDFloorShadowArchSw_6 == 417

\* Arch ids for layout 1.
ArchSe == 1
ArchSeBroken == 2
ArchSeDoor == 7
ArchSw == 0
ArchSw2 == 4
ArchSwBroken == 5
ArchSwBroken2 == 3
ArchSwDoor == 6

\* Package min: the footprint of a cell and the width of a pillar, in pixels.
BlockWidth == 32
BlockHeight == 32
PillarWidth == 64
\* The pillar table min.Parse("l1.min") returns: its length, and the height
\* of its pillars.
NumPillars == 453
PillarHeight == 160
\* The number of frames cel.DecodeAll("l1s.cel") returns.
NumArches == 8

(***************************************************************************)
(* Bounds of the model.                                                    *)
(***************************************************************************)
\* dunQWidth and dunQHeight range over 0..MaxQ, with at most MaxQLen squares.
MaxQ == 3
MaxQLen == 3
\* colCount and rowCount of dunmini.Parse range over 0..MaxCount, with at
\* most MaxLen squares.
MaxCount == 2
MaxLen == 4
\* The trailing planes of the modelled files hold TrailWord(seed, p, n),
\* seed in 0..MaxSeed.
MaxSeed == 1
\* A process makes at most MaxCalls calls of Image and goes on to a next DUN
\* file at most MaxDumps times.
MaxCalls == 2
MaxDumps == 1
\* Single calls of GetPillarRect and of Image's canvas take col, row,
\* colCount and rowCount from 0..MaxDim.
MaxDim == 5

(***************************************************************************)
(* The square table til.Parse returns: per square the pillar numbers of    *)
(* its four quadrants.  The table of the model holds every pillar number   *)
(* getArchID knows and two it does not.                                    *)
(***************************************************************************)
squares ==
    << [PillarNumTop |-> 11,  PillarNumRight |-> 70,  PillarNumLeft |-> 210, PillarNumBottom |-> 320],
       [PillarNumTop |-> 340, PillarNumRight |-> 417, PillarNumLeft |-> 10,  PillarNumBottom |-> 248],
       [PillarNumTop |-> 324, PillarNumRight |-> 330, PillarNumLeft |-> 343, PillarNumBottom |-> 420],
       [PillarNumTop |-> 254, PillarNumRight |-> 258, PillarNumLeft |-> 0,   PillarNumBottom |-> 12] >>

NumSquares == Len(squares)

(***************************************************************************)
(* What the files of the model hold.                                       *)
(***************************************************************************)
\* The two bytes of a square value: 0 (no square), the first and the last
\* square of the table, one past the table, and 257, whose high byte is set.
SquareWords ==
    { <<0, 0>>, <<1, 0>>, <<NumSquares, 0>>, <<NumSquares + 1, 0>>, <<1, 1>> }

\* The two bytes of the n-th value (n from 0) of trailing plane p.
TrailWord(s, p, n) == << (n + p + s) % 3, (n + s) % 2 >>

\* (colStart, rowStart) as dunconf gives them for a DUN file.
Offsets == { <<0, 0>>, <<16, 24>>, <<110, 108>> }

\* The directories a DUN name resolves to.
DunDirs == { "levels/l1data/", "levels/l2data/", "levels/l3data/",
             "levels/l4data/", "levels/towndata/", "levels/unknown/" }

\* What is left of the file where a value of two bytes `w` is expected: the
\* value, its first byte only, or nothing.
Chunks(w) == { w, <<w[1]>>, <<>> }

(***************************************************************************)
(* encoding/binary as Parse uses it.                                       *)
(***************************************************************************)
\* binary.Read of `size` bytes from a reader that has `chunk` left: io.EOF
\* when nothing is left, io.ErrUnexpectedEOF when fewer than size bytes are.
binaryRead(chunk, size) ==
    IF Len(chunk) = 0 THEN "EOF"
    ELSE IF Len(chunk) < size THEN "ErrUnexpectedEOF"
    ELSE "nil"

\* binary.LittleEndian: the uint16 at bytes b[o], b[o+1].
LittleEndianUint16(b, o) == b[o] + 256 * b[o + 1]

(***************************************************************************)
(* The grid.                                                               *)
(***************************************************************************)
\* New: every cell holds an empty map.
New == [x \in {} |-> 0]

\* Go's index check of dungeon[c][r].
InGrid(c, r) == c \in 0..(ColMax - 1) /\ r \in 0..(RowMax - 1)

\* dungeon[c][r][key] = v
Put(d, c, r, key, v) == (<<c, r, key>> :> v) @@ d

Has(d, c, r, key) == <<c, r, key>> \in DOMAIN d

\* SquareWrites with the right and the left quadrant exchanged.
SquareWritesSwapped(square, c, r) ==
    << <<c,     r,     square.PillarNumTop>>,
       <<c + 1, r,     square.PillarNumLeft>>,
       <<c,     r + 1, square.PillarNumRight>>,
       <<c + 1, r + 1, square.PillarNumBottom>> >>

\* The four assignments of a square at (c, r), in the order of the code.
SquareWrites(square, c, r) ==
    << <<c,     r,     square.PillarNumTop>>,
       <<c + 1, r,     square.PillarNumRight>>,
       <<c,     r + 1, square.PillarNumLeft>>,
       <<c + 1, r + 1, square.PillarNumBottom>> >>

\* The number of assignments of ws that run before one indexes outside the
\* grid (Len(ws) when none does).
RECURSIVE WritesDone(_, _)
WritesDone(ws, n) ==
    IF n > Len(ws) THEN Len(ws)
    ELSE IF ~InGrid(ws[n][1], ws[n][2]) THEN n - 1
    ELSE WritesDone(ws, n + 1)

\* The grid after the first n assignments of ws.
RECURSIVE PutAll(_, _, _, _)
PutAll(d, ws, n, key) ==
    IF n = 0 THEN d
    ELSE Put(PutAll(d, ws, n - 1, key), ws[n][1], ws[n][2], key, ws[n][3])

\* PlaceSquare without the test for zero: "no square" stores pillar 0 in the
\* four cells.
PlaceSquareZero(d, squareNumPlus1, c, r) ==
    LET squareNum == squareNumPlus1 - 1
        ws == IF squareNumPlus1 = 0
              THEN << <<c, r, 0>>, <<c + 1, r, 0>>, <<c, r + 1, 0>>, <<c + 1, r + 1, 0>> >>
              ELSE SquareWrites(squares[squareNum + 1], c, r)
        done == WritesDone(ws, 1)
    IN IF squareNumPlus1 # 0 /\ squareNum \notin 0..(NumSquares - 1)
       THEN [dungeon |-> d, panic |-> "squares"]
       ELSE [dungeon |-> PutAll(d, ws, done, "pillarNum"),
             panic |-> IF done < Len(ws) THEN "dungeon" ELSE "none"]

\* The body of the square loops for the value squareNumPlus1 at (c, r): the
\* grid it leaves and the index that panicked, if one did.  (The same text in
\* dun.Parse and in dunmini.Parse.)
PlaceSquare(d, squareNumPlus1, c, r) ==
    IF squareNumPlus1 = 0 THEN [dungeon |-> d, panic |-> "none"]
    ELSE LET squareNum == squareNumPlus1 - 1
         IN IF squareNum \notin 0..(NumSquares - 1)
            THEN [dungeon |-> d, panic |-> "squares"]
            ELSE LET ws == SquareWrites(squares[squareNum + 1], c, r)
                     done == WritesDone(ws, 1)
                 IN [dungeon |-> PutAll(d, ws, done, "pillarNum"),
                     panic |-> IF done < Len(ws) THEN "dungeon" ELSE "none"]

\* PlaneKey with the monster and the object ids exchanged.
PlaneKeySwapped(p) ==
    CASE p = 1 -> "unknown"
      [] p = 2 -> "dunObjectID"
      [] p = 3 -> "dunMonsterID"
      [] p = 4 -> "transparency"

\* The keys of the four trailing planes, in file order.
PlaneKey(p) ==
    CASE p = 1 -> "unknown"
      [] p = 2 -> "dunMonsterID"
      [] p = 3 -> "dunObjectID"
      [] p = 4 -> "transparency"

\* PlaneEOFOk without the tolerance: every end of input is an error.
PlaneEOFOkNever(err, ii, jj) == FALSE

\* PlaneEOFOk that tolerates the end of input at the start of every row.
PlaneEOFOkAnyRow(err, ii, jj) == err = "EOF" /\ jj = 0

\* "Some DUN files only contain the pillar IDs": the one end of input that
\* is not an error.
PlaneEOFOk(err, ii, jj) == err = "EOF" /\ ii = 0 /\ jj = 0

\* GetLevelName without the case of the town.
GetLevelNameNoTown(dunDir) ==
    CASE dunDir = "levels/l1data/" -> [nameWithoutExt |-> "l1", err |-> "nil"]
      [] dunDir = "levels/l2data/" -> [nameWithoutExt |-> "l2", err |-> "nil"]
      [] dunDir = "levels/l3data/" -> [nameWithoutExt |-> "l3", err |-> "nil"]
      [] dunDir = "levels/l4data/" -> [nameWithoutExt |-> "l4", err |-> "nil"]
      [] OTHER -> [nameWithoutExt |-> "", err |-> "invalid dunDir"]

\* GetLevelName's switch over the directory of the DUN file.
GetLevelName(dunDir) ==
    CASE dunDir = "levels/l1data/" -> [nameWithoutExt |-> "l1", err |-> "nil"]
      [] dunDir = "levels/l2data/" -> [nameWithoutExt |-> "l2", err |-> "nil"]
      [] dunDir = "levels/l3data/" -> [nameWithoutExt |-> "l3", err |-> "nil"]
      [] dunDir = "levels/l4data/" -> [nameWithoutExt |-> "l4", err |-> "nil"]
      [] dunDir = "levels/towndata/" -> [nameWithoutExt |-> "town", err |-> "nil"]
      [] OTHER -> [nameWithoutExt |-> "", err |-> "invalid dunDir"]

\* No single call was made; no parallel calls run.
NoCall == [op |-> "none"]
NoPar == <<>>

(***************************************************************************)
(* Initial state: a process of one of the two packages, holding a grid     *)
(* that New returned.                                                      *)
(***************************************************************************)
Init ==
    /\ pkg \in {"dun", "dunmini"}
    /\ pc = "idle"
    /\ ret = "none"
    /\ panicAt = "none"
    /\ dungeon = New
    /\ file = <<>>
    /\ atEnd = FALSE
    /\ dunQWidth = 0 /\ dunQHeight = 0 /\ colStart = 0 /\ rowStart = 0 /\ seed = 0
    /\ plane = 0
    /\ i = 0 /\ j = 0 /\ col = 0 /\ row = 0
    /\ squareIDsPlus1 = <<>> /\ colCount = 0 /\ rowCount = 0 /\ k = 0
    /\ arches = "nil" /\ decodes = 0
    /\ imgCols = 0 /\ imgRows = 0 /\ log = <<>>
    /\ calls = 0 /\ dumps = 0
    /\ call = NoCall
    /\ par = NoPar

(***************************************************************************)
(* dun.Parse(dunName)                                                      *)
(***************************************************************************)
\* Parse returns err.
Return(err) ==
    /\ pc' = "done"
    /\ ret' = err
    /\ panicAt' = panicAt

\* The function goes on at `at`.
Goto(at) ==
    /\ pc' = at
    /\ ret' = ret
    /\ panicAt' = panicAt

\* A run-time panic, index out of range, ends the process: no caller of this
\* repository recovers.
Panic(at) ==
    /\ pc' = "panic"
    /\ ret' = ret
    /\ panicAt' = at

\* mpq.GetPath and os.Open: the file opens, or Parse returns the error.
ParseOpen ==
    /\ pkg = "dun" /\ pc = "idle"
    /\ \/ Goto("header")
       \/ Return("ioerr")
    /\ UNCHANGED <<pkg, otherVars, calls, dumps, dungeon, parseVars, i, j, col, row,
                   miniVars, arches, decodes, imageVars>>

\* Width, height and step of the loops over plane p.
PlaneWidth(p) == IF p = 0 THEN dunQWidth ELSE 2 * dunQWidth
PlaneHeight(p) == IF p = 0 THEN dunQHeight ELSE 2 * dunQHeight
PlaneStep(p) == IF p = 0 THEN 2 ELSE 1

\* The header, then dunconf's offsets, the level name and the square table,
\* each of which may fail and end Parse with its error.
\* With a zero dunQWidth or dunQHeight no loop body runs and Parse returns
\* nil.
ParseHeader ==
    /\ pc = "header"
    /\ \E w \in 0..MaxQ, h \in 0..MaxQ, n \in 0..4 :
         LET hdr == <<w, 0, h, 0>>
             chunk == SubSeq(hdr, 1, n)
             err == binaryRead(chunk, 4)
         IN /\ w * h <= MaxQLen
            /\ file' = chunk
            /\ IF err # "nil"
               THEN /\ atEnd' = TRUE
                    /\ Return(err)
                    /\ UNCHANGED <<dunQWidth, dunQHeight, colStart, rowStart, seed,
                                   col, row>>
               ELSE /\ atEnd' = FALSE
                    /\ dunQWidth' = LittleEndianUint16(chunk, 1)
                    /\ dunQHeight' = LittleEndianUint16(chunk, 3)
                    /\ \E dunDir \in DunDirs, off \in Offsets, s \in 0..MaxSeed,
                          confOk \in BOOLEAN, tilOk \in BOOLEAN :
                         /\ colStart' = off[1]
                         /\ rowStart' = off[2]
                         /\ seed' = s
                         /\ col' = off[1]
                         /\ row' = off[2]
                         /\ IF ~confOk THEN Return("ioerr")
                            ELSE IF GetLevelName(dunDir).err # "nil"
                            THEN Return(GetLevelName(dunDir).err)
                            ELSE IF ~tilOk THEN Return("ioerr")
                            ELSE IF w = 0 \/ h = 0 THEN Return("nil")
                            ELSE Goto("squares")
    /\ UNCHANGED <<pkg, otherVars, calls, dumps, dungeon, plane, i, j, miniVars,
                   arches, decodes, imageVars>>

\* The loop variables after the body of the inner loop has run at (ii, jj) of
\* plane p: the next inner step, else the next outer step, else the first
\* step of the next plane, else (p = 5) the end of Parse.
LoopNext(p, ii, jj, c, r) ==
    IF jj + 1 < PlaneWidth(p)
    THEN [plane |-> p, i |-> ii, j |-> jj + 1, col |-> c + PlaneStep(p), row |-> r]
    ELSE IF ii + 1 < PlaneHeight(p)
    THEN [plane |-> p, i |-> ii + 1, j |-> 0, col |-> colStart, row |-> r + PlaneStep(p)]
    ELSE [plane |-> p + 1, i |-> 0, j |-> 0, col |-> colStart, row |-> rowStart]

\* The loops move on, or Parse returns nil after the last plane.
Advance(p, ii, jj, c, r) ==
    LET n == LoopNext(p, ii, jj, c, r)
    IN /\ plane' = n.plane /\ i' = n.i /\ j' = n.j /\ col' = n.col /\ row' = n.row
       /\ IF n.plane = 5 THEN Return("nil")
          ELSE Goto(IF n.plane = 0 THEN "squares" ELSE "planes")

\* One step of the squareNumsPlus1 loop.
ParseSquare ==
    /\ pc = "squares"
    /\ \E w \in SquareWords : \E chunk \in Chunks(w) :
         LET err == binaryRead(chunk, 2)
             squareNumPlus1 == LittleEndianUint16(chunk, 1)
             placed == PlaceSquare(dungeon, squareNumPlus1, col, row)
         IN /\ file' = file \o chunk
            /\ IF err # "nil"
               THEN /\ atEnd' = TRUE
                    /\ Return(err)
                    /\ UNCHANGED <<dungeon, plane, i, j, col, row>>
               ELSE /\ atEnd' = FALSE
                    /\ dungeon' = placed.dungeon
                    /\ IF placed.panic # "none"
                       THEN /\ Panic(placed.panic)
                            /\ UNCHANGED <<plane, i, j, col, row>>
                       ELSE Advance(0, i, j, col, row)
    /\ UNCHANGED <<pkg, otherVars, calls, dumps, dunQWidth, dunQHeight, colStart,
                   rowStart, seed, miniVars, arches, decodes, imageVars>>

\* One step of the loop over trailing plane `plane`.
ParsePlane ==
    /\ pc = "planes"
    /\ \E chunk \in Chunks(TrailWord(seed, plane, i * PlaneWidth(plane) + j)) :
         LET err == binaryRead(chunk, 2)
             x == LittleEndianUint16(chunk, 1)
         IN /\ file' = file \o chunk
            /\ IF err # "nil"
               THEN /\ atEnd' = TRUE
                    /\ Return(IF PlaneEOFOk(err, i, j) THEN "nil" ELSE err)
                    /\ UNCHANGED <<dungeon, plane, i, j, col, row>>
               ELSE /\ atEnd' = FALSE
                    /\ IF ~InGrid(col, row)
                       THEN /\ Panic("dungeon")
                            /\ UNCHANGED <<dungeon, plane, i, j, col, row>>
                       ELSE /\ dungeon' = Put(dungeon, col, row, PlaneKey(plane), x)
                            /\ Advance(plane, i, j, col, row)
    /\ UNCHANGED <<pkg, otherVars, calls, dumps, dunQWidth, dunQHeight, colStart,
                   rowStart, seed, miniVars, arches, decodes, imageVars>>

(***************************************************************************)
(* dunmini.Parse(squareIDsPlus1, colCount, rowCount)                       *)
(***************************************************************************)
\* The square ids a buffer of the model holds: none, every square of the
\* table, and one past the table.
MiniIDs == 0..(NumSquares + 1)

\* The loop variables of dunmini.Parse after the body has run at outer step
\* jj (over colCount) and inner step ii (over rowCount).
MiniNext(ii, jj, c, r) ==
    IF ii + 1 < rowCount
    THEN [i |-> ii + 1, j |-> jj, col |-> c, row |-> r + 2]
    ELSE [i |-> 0, j |-> jj + 1, col |-> c + 2, row |-> 0]

\* dungeonDump: New, then Parse of a buffer of colCount*rowCount square ids.
\* til.Parse("l1.til") fails, or the loops start; with a zero count no loop
\* body runs.
MiniStart ==
    /\ pkg = "dunmini" /\ pc = "idle"
    /\ \E cc \in 0..MaxCount, rc \in 0..MaxCount :
         /\ cc * rc <= MaxLen
         /\ \E buf \in [1..(cc * rc) -> MiniIDs], tilOk \in BOOLEAN :
              /\ squareIDsPlus1' = buf
              /\ colCount' = cc
              /\ rowCount' = rc
              /\ k' = 0
              /\ IF ~tilOk THEN Return("ioerr")
                 ELSE IF cc = 0 \/ rc = 0 THEN Return("nil")
                 ELSE Goto("mini")
    /\ UNCHANGED <<pkg, otherVars, calls, dumps, dungeon, parseVars, i, j, col, row,
                   arches, decodes, imageVars>>

\* One step of the loops of dunmini.Parse.
MiniSquare ==
    /\ pc = "mini"
    /\ LET squareNumPlus1 == squareIDsPlus1[k + 1]
           placed == PlaceSquare(dungeon, squareNumPlus1, col, row)
           n == MiniNext(i, j, col, row)
       IN /\ dungeon' = placed.dungeon
          /\ IF placed.panic # "none"
             THEN /\ Panic(placed.panic)
                  /\ UNCHANGED <<i, j, col, row, k>>
             ELSE /\ i' = n.i /\ j' = n.j /\ col' = n.col /\ row' = n.row
                  /\ k' = k + 1
                  /\ IF n.j < colCount THEN Goto("mini") ELSE Return("nil")
    /\ UNCHANGED <<pkg, otherVars, calls, dumps, parseVars, squareIDsPlus1, colCount,
                   rowCount, arches, decodes, imageVars>>

(***************************************************************************)
(* dunmini's Image(colCount, rowCount, pillars, levelFrames)               *)
(***************************************************************************)
\* MapWidth by the sum of the counts, not by their maximum.
MapWidthOfSum(cc, rc) == cc * BlockWidth + rc * BlockWidth

\* MapHeight without the part of a pillar that stands above its block.
MapHeightOfBlocks(cc, rc, pillarHeight) ==
    (IF rc > cc THEN rc ELSE cc) * (BlockHeight \div 2)
        + (IF rc > cc THEN rc ELSE cc) * (BlockHeight \div 2)

\* The canvas of Image.
MaxOf(a, b) == IF b > a THEN b ELSE a
MapWidth(cc, rc) == MaxOf(cc, rc) * BlockWidth + MaxOf(cc, rc) * BlockWidth
MapHeight(cc, rc, pillarHeight) ==
    MaxOf(cc, rc) * (BlockHeight \div 2) + MaxOf(cc, rc) * (BlockHeight \div 2)
        + (pillarHeight - BlockHeight)

\* GetPillarRect with col and row exchanged in minX.
GetPillarRectMirrored(c, r, mapWidth, pillarHeight) ==
    LET minX == mapWidth \div 2 - BlockWidth - c * BlockWidth + r * BlockWidth
        minY == r * (BlockHeight \div 2) + c * (BlockHeight \div 2)
    IN [minX |-> minX, minY |-> minY,
        maxX |-> minX + PillarWidth, maxY |-> minY + pillarHeight]

\* image.Rect(minX, minY, maxX, maxY) of the pillar at (c, r).
GetPillarRect(c, r, mapWidth, pillarHeight) ==
    LET minX == mapWidth \div 2 - BlockWidth - r * BlockWidth + c * BlockWidth
        minY == r * (BlockHeight \div 2) + c * (BlockHeight \div 2)
    IN [minX |-> minX, minY |-> minY,
        maxX |-> minX + PillarWidth, maxY |-> minY + pillarHeight]

\* getArchID with the arches of the two single pillar ids exchanged.
getArchIDSwapped(pillarID) ==
    IF pillarID \in { PillarIDFloorShadowArchSw_1, PillarIDFloorShadowArchSw_2,
                      PillarIDFloorShadowArchSw_3, PillarIDFloorShadowArchSw_4,
                      PillarIDFloorShadowArchSw_5, PillarIDFloorShadowArchSw_6 }
    THEN [archID |-> ArchSw, ok |-> TRUE]
    ELSE IF pillarID \in { PillarIDFloorShadowArchSe_1, PillarIDFloorShadowArchSe_2,
                           PillarIDFloorShadowArchSe_3, PillarIDFloorShadowArchSe_4,
                           PillarIDFloorShadowArchSe_5, PillarIDFloorShadowArchSe_6 }
    THEN [archID |-> ArchSe, ok |-> TRUE]
    ELSE IF pillarID = PillarIDFloorShadowArchSwBroken2_1
    THEN [archID |-> ArchSw2, ok |-> TRUE]
    ELSE IF pillarID = PillarIDFloorShadowArchSw2_1
    THEN [archID |-> ArchSwBroken2, ok |-> TRUE]
    ELSE [archID |-> 0, ok |-> FALSE]

\* The arch of a pillar id: its arch id and true, or 0 and false.
getArchID(pillarID) ==
    IF pillarID \in { PillarIDFloorShadowArchSw_1, PillarIDFloorShadowArchSw_2,
                      PillarIDFloorShadowArchSw_3, PillarIDFloorShadowArchSw_4,
                      PillarIDFloorShadowArchSw_5, PillarIDFloorShadowArchSw_6 }
    THEN [archID |-> ArchSw, ok |-> TRUE]
    ELSE IF pillarID \in { PillarIDFloorShadowArchSe_1, PillarIDFloorShadowArchSe_2,
                           PillarIDFloorShadowArchSe_3, PillarIDFloorShadowArchSe_4,
                           PillarIDFloorShadowArchSe_5, PillarIDFloorShadowArchSe_6 }
    THEN [archID |-> ArchSe, ok |-> TRUE]
    ELSE IF pillarID = PillarIDFloorShadowArchSwBroken2_1
    THEN [archID |-> ArchSwBroken2, ok |-> TRUE]
    ELSE IF pillarID = PillarIDFloorShadowArchSw2_1
    THEN [archID |-> ArchSw2, ok |-> TRUE]
    ELSE [archID |-> 0, ok |-> FALSE]

\* draw.Draw(dst, rect, src, image.ZP, draw.Over), as an entry of the log of
\* what was drawn: the base pillar of a cell, or an arch over it.
DrawPillar(c, r, rect, pillarNum) ==
    [kind |-> "pillar", col |-> c, row |-> r, rect |-> rect, id |-> pillarNum]
DrawArch(c, r, rect, archID) ==
    [kind |-> "arch", col |-> c, row |-> r, rect |-> rect, id |-> archID]

\* What the body of Image's loops draws at cell (c, r): nothing for a cell
\* without a pillarNum, else the pillar and, for an arch pillar, its arch.
CellDraws(d, c, r, cc, rc) ==
    IF ~Has(d, c, r, "pillarNum") THEN <<>>
    ELSE LET pillarNum == d[<<c, r, "pillarNum">>]
             rect == GetPillarRect(c, r, MapWidth(cc, rc), PillarHeight)
             arch == getArchID(pillarNum)
         IN <<DrawPillar(c, r, rect, pillarNum)>>
              \o (IF arch.ok THEN <<DrawArch(c, r, rect, arch.archID)>> ELSE <<>>)

\* ImageNext with the loops exchanged: col outer, row inner.
ImageNextColOuter(c, r, cc) ==
    IF r + 1 < imgRows THEN [col |-> c, row |-> r + 1]
    ELSE IF c + 1 < cc THEN [col |-> c + 1, row |-> 0]
    ELSE [col |-> 0, row |-> imgRows]

\* The cell Image's loops visit after (c, r): row is the outer loop, col the
\* inner one.  A row of rc says that the loops have ended.
ImageNext(c, r, cc) ==
    IF c + 1 < cc THEN [col |-> c + 1, row |-> r] ELSE [col |-> 0, row |-> r + 1]

\* The colCount (rowCount) Image is called with for a grid parsed with count
\* n: dungeonDump passes n*2, the whole of what Parse wrote; a caller may
\* also ask for less.
ImageCounts(n) == { c \in {n * 2 - 1, n * 2} : c >= 0 }

\* ArchesNil that never finds the arches decoded.
ArchesNilAlways(a) == TRUE

\* `arches == nil`: the package variable holds no arches yet.
ArchesNil(a) == a = "nil"

\* Image is called, once per palette in dungeonDump, on the grid a successful
\* Parse left.  A call that finds no arches decodes them, and log.Fatalln ends
\* the process when that fails.
ImageStart ==
    /\ pkg = "dunmini"
    /\ (pc = "done" /\ ret = "nil") \/ pc = "imgdone"
    /\ calls < MaxCalls
    /\ calls' = calls + 1
    /\ \E cc \in ImageCounts(colCount), rc \in ImageCounts(rowCount), decodeOk \in BOOLEAN :
         /\ imgCols' = cc
         /\ imgRows' = rc
         /\ log' = <<>>
         /\ col' = 0 /\ row' = 0
         /\ IF ArchesNil(arches) /\ ~decodeOk
            THEN Goto("fatal") /\ UNCHANGED <<arches, decodes>>
            ELSE /\ arches' = "decoded"
                 /\ decodes' = (IF ArchesNil(arches) THEN decodes + 1 ELSE decodes)
                 /\ Goto(IF rc > 0 /\ cc > 0 THEN "image" ELSE "imgdone")
    /\ UNCHANGED <<pkg, otherVars, dumps, dungeon, parseVars, i, j, miniVars>>

\* One run of the body of Image's loops.
ImageCell ==
    /\ pc = "image"
    /\ LET draws == CellDraws(dungeon, col, row, imgCols, imgRows)
           n == ImageNext(col, row, imgCols)
       IN IF ~InGrid(col, row)
          THEN Panic("dungeon") /\ UNCHANGED <<log, col, row>>
          ELSE IF \E e \in 1..Len(draws) :
                    draws[e].kind = "pillar" /\ draws[e].id \notin 0..(NumPillars - 1)
          THEN Panic("pillars") /\ UNCHANGED <<log, col, row>>
          ELSE IF \E e \in 1..Len(draws) :
                    draws[e].kind = "arch" /\ draws[e].id \notin 0..(NumArches - 1)
          THEN /\ Panic("arches")
               /\ log' = log \o <<draws[1]>>
               /\ UNCHANGED <<col, row>>
          ELSE /\ log' = log \o draws
               /\ col' = n.col /\ row' = n.row
               /\ Goto(IF n.row < imgRows THEN "image" ELSE "imgdone")
    /\ UNCHANGED <<pkg, otherVars, calls, dumps, dungeon, parseVars, i, j, miniVars,
                   arches, decodes, imgCols, imgRows>>

\* NextDump that hands the grid of the file before to the next file.
NextDumpSameGrid ==
    /\ pc \in {"done", "imgdone"}
    /\ dumps < MaxDumps
    /\ dumps' = dumps + 1
    /\ pc' = "idle"
    /\ ret' = "none"
    /\ panicAt' = "none"
    /\ dungeon' = dungeon
    /\ file' = <<>>
    /\ atEnd' = FALSE
    /\ dunQWidth' = 0 /\ dunQHeight' = 0 /\ colStart' = 0 /\ rowStart' = 0 /\ seed' = 0
    /\ plane' = 0
    /\ i' = 0 /\ j' = 0 /\ col' = 0 /\ row' = 0
    /\ squareIDsPlus1' = <<>> /\ colCount' = 0 /\ rowCount' = 0 /\ k' = 0
    /\ imgCols' = 0 /\ imgRows' = 0 /\ log' = <<>>
    /\ UNCHANGED <<pkg, otherVars, calls, arches, decodes>>

\* The caller goes on to the next DUN file with a grid that New returns.
NextDump ==
    /\ pc \in {"done", "imgdone"}
    /\ dumps < MaxDumps
    /\ dumps' = dumps + 1
    /\ pc' = "idle"
    /\ ret' = "none"
    /\ panicAt' = "none"
    /\ dungeon' = New
    /\ file' = <<>>
    /\ atEnd' = FALSE
    /\ dunQWidth' = 0 /\ dunQHeight' = 0 /\ colStart' = 0 /\ rowStart' = 0 /\ seed' = 0
    /\ plane' = 0
    /\ i' = 0 /\ j' = 0 /\ col' = 0 /\ row' = 0
    /\ squareIDsPlus1' = <<>> /\ colCount' = 0 /\ rowCount' = 0 /\ k' = 0
    /\ imgCols' = 0 /\ imgRows' = 0 /\ log' = <<>>
    /\ UNCHANGED <<pkg, otherVars, calls, arches, decodes>>

(***************************************************************************)
(* What the properties below read off a state.                             *)
(***************************************************************************)
\* The n-th 16-bit value of the file (n from 0), little-endian.
FileWord(n) == file[2 * n + 1] + 256 * file[2 * n + 2]

\* The file layout a header (dunQWidth, dunQHeight) lays down.
NumQ == dunQWidth * dunQHeight
dunWidth == 2 * dunQWidth
dunHeight == 2 * dunQHeight
\* The m-th square value (m from 0) and the m-th value of trailing plane p.
SquareWord(m) == FileWord(2 + m)
PlaneWord(p, m) == FileWord(2 + NumQ + (p - 1) * (dunWidth * dunHeight) + m)
\* The byte offset at which trailing plane p starts (p = 5: the end of a
\* file that holds all four planes).
PlaneStartByte(p) == 4 + 2 * NumQ + (p - 1) * 2 * (dunWidth * dunHeight)

\* The cells that carry a given attribute.
CellsWith(key) == { <<x[1], x[2]>> : x \in { y \in DOMAIN dungeon : y[3] = key } }
\* The attributes of the trailing planes, in file order.
TrailingKeys == << "unknown", "dunMonsterID", "dunObjectID", "transparency" >>
\* The region of the grid the header and the offsets describe.
Region == { <<c, r>> \in (colStart..(colStart + dunWidth - 1))
                           \X (rowStart..(rowStart + dunHeight - 1)) : TRUE }
\* dun.Parse has returned after it read the whole square plane.
SquaresParsed ==
    pkg = "dun" /\ pc = "done" /\ NumQ > 0 /\ Len(file) >= 4 + 2 * NumQ

\* The grid holds exactly the pillar cells of the square plane of the file:
\* the 2x2 block of every non-zero square value, and nothing else.
PillarsAsInFile ==
    /\ CellsWith("pillarNum") =
         UNION { { <<colStart + 2 * (m % dunQWidth) + dx,
                     rowStart + 2 * (m \div dunQWidth) + dy>> : dx \in 0..1, dy \in 0..1 }
                 : m \in { n \in 0..(NumQ - 1) : SquareWord(n) # 0 } }
    /\ \A m \in 0..(NumQ - 1) :
         SquareWord(m) # 0 =>
           LET c == colStart + 2 * (m % dunQWidth)
               r == rowStart + 2 * (m \div dunQWidth)
               sq == squares[SquareWord(m)]
           IN /\ dungeon[<<c, r, "pillarNum">>] = sq.PillarNumTop
              /\ dungeon[<<c + 1, r, "pillarNum">>] = sq.PillarNumRight
              /\ dungeon[<<c, r + 1, "pillarNum">>] = sq.PillarNumLeft
              /\ dungeon[<<c + 1, r + 1, "pillarNum">>] = sq.PillarNumBottom

\* Trailing plane p is in the grid, complete: every cell of the region holds
\* its attribute, with the value of the file, and no other cell has it.
PlaneStored(p) ==
    /\ CellsWith(TrailingKeys[p]) = Region
    /\ \A m \in 0..(dunWidth * dunHeight - 1) :
         dungeon[<<colStart + (m % dunWidth), rowStart + (m \div dunWidth), TrailingKeys[p]>>]
           = PlaneWord(p, m)

(***************************************************************************)
(* C1.  Quadrant expansion in dun.Parse: when the square plane of the file *)
(* holds a single non-zero value S, read at inner step jj of outer step    *)
(* ii, then after Parse exactly the four cells (c,r), (c+1,r), (c,r+1),    *)
(* (c+1,r+1), c = colStart+2*jj, r = rowStart+2*ii, carry a pillarNum, and *)
(* they hold the top, right, left and bottom pillar of square S-1.         *)
(***************************************************************************)
SingleSquareAt(m) ==
    /\ SquareWord(m) # 0
    /\ \A n \in 0..(NumQ - 1) : n # m => SquareWord(n) = 0

C1_QuadrantExpansion ==
    SquaresParsed =>
      \A ii \in 0..(dunQHeight - 1), jj \in 0..(dunQWidth - 1) :
        SingleSquareAt(ii * dunQWidth + jj) =>
          LET S == SquareWord(ii * dunQWidth + jj)
              c == colStart + 2 * jj
              r == rowStart + 2 * ii
          IN /\ CellsWith("pillarNum") = { <<c, r>>, <<c + 1, r>>, <<c, r + 1>>, <<c + 1, r + 1>> }
             /\ dungeon[<<c, r, "pillarNum">>] = squares[(S - 1) + 1].PillarNumTop
             /\ dungeon[<<c + 1, r, "pillarNum">>] = squares[(S - 1) + 1].PillarNumRight
             /\ dungeon[<<c, r + 1, "pillarNum">>] = squares[(S - 1) + 1].PillarNumLeft
             /\ dungeon[<<c + 1, r + 1, "pillarNum">>] = squares[(S - 1) + 1].PillarNumBottom

\* Parse succeeded on a file whose only square is the second of its plane,
\* away from the origin of the grid.
C1_Witness ==
    /\ SquaresParsed /\ ret = "nil" /\ NumQ = 2
    /\ SingleSquareAt(1)
    /\ colStart > 0
    /\ Cardinality(CellsWith("pillarNum")) = 4

(***************************************************************************)
(* C2.  A zero square id places nothing.  While every square value that a  *)
(* Parse (either variant) was given is zero, no cell of the grid has a     *)
(* pillarNum (absent, not 0), and Parse succeeds: it does not panic unless *)
(* the trailing planes of the file reach outside the grid, and it returns  *)
(* nil unless the environment failed (file, configuration, square table)   *)
(* or the file ends inside a plane.                                        *)
(***************************************************************************)
\* The number of whole square values read from the file.
SquaresRead ==
    IF Len(file) < 4 THEN 0
    ELSE IF (Len(file) - 4) \div 2 < NumQ THEN (Len(file) - 4) \div 2 ELSE NumQ

AllZeroFile == \A m \in 0..(SquaresRead - 1) : SquareWord(m) = 0
AllZeroBuffer == \A n \in 1..Len(squareIDsPlus1) : squareIDsPlus1[n] = 0

\* The file ended, and not at the first value of a trailing plane.
EndsInsidePlane ==
    atEnd /\ \A p \in 1..4 : Len(file) # PlaneStartByte(p)

RegionFits ==
    colStart + dunWidth <= ColMax /\ rowStart + dunHeight <= RowMax

C2_ZeroSquaresPlaceNothing ==
    /\ (pkg = "dun" /\ Len(file) >= 4 /\ AllZeroFile) =>
         /\ CellsWith("pillarNum") = {}
         /\ RegionFits => pc # "panic"
         /\ (pc = "done" /\ ret \notin {"ioerr", "invalid dunDir"} /\ ~EndsInsidePlane)
              => ret = "nil"
    /\ (pkg = "dunmini" /\ pc \notin {"idle"} /\ AllZeroBuffer) =>
         /\ CellsWith("pillarNum") = {}
         /\ pc # "panic"
         /\ (pc = "done" /\ ret # "ioerr") => ret = "nil"

\* Both variants have returned nil on a plane of two zero squares; the file
\* held all four trailing planes, so that the grid is not empty.
C2_Witness ==
    \/ /\ pkg = "dun" /\ pc = "done" /\ ret = "nil" /\ NumQ = 2 /\ AllZeroFile
       /\ Len(file) = PlaneStartByte(5)
       /\ DOMAIN dungeon # {}
    \/ /\ pkg = "dunmini" /\ pc = "done" /\ ret = "nil"
       /\ Len(squareIDsPlus1) >= 2 /\ AllZeroBuffer

(***************************************************************************)
(* C3.  Truncation at a plane boundary is not an error: when the file ends *)
(* exactly before the first value of trailing plane p, Parse returns nil   *)
(* and the grid holds exactly the pillar cells of the square plane and the *)
(* complete attributes of the planes before p; no cell has an attribute of *)
(* plane p or of a later plane.                                            *)
(***************************************************************************)
EndsAtPlane(p) ==
    pkg = "dun" /\ atEnd /\ NumQ > 0 /\ Len(file) = PlaneStartByte(p)

C3_BoundaryTruncationSucceeds ==
    \A p \in 1..4 :
      EndsAtPlane(p) =>
        /\ pc = "done" /\ ret = "nil"
        /\ PillarsAsInFile
        /\ \A q \in 1..(p - 1) : PlaneStored(q)
        /\ \A q \in p..4 : CellsWith(TrailingKeys[q]) = {}

\* The file ended before its object ids, after a square and two whole planes.
C3_Witness ==
    /\ EndsAtPlane(3) /\ ret = "nil"
    /\ CellsWith("pillarNum") # {}
    /\ CellsWith("dunMonsterID") = Region

(***************************************************************************)
(* C4.  Truncation inside a plane is an error: when the file ends inside   *)
(* the square plane, or in a trailing plane anywhere but before its first  *)
(* value, Parse returns an error (io.EOF or io.ErrUnexpectedEOF), never    *)
(* nil.                                                                    *)
(***************************************************************************)
C4_MidPlaneTruncationFails ==
    (pkg = "dun" /\ Len(file) >= 4 /\ EndsInsidePlane) =>
      pc = "done" /\ ret \in {"EOF", "ErrUnexpectedEOF"}

\* The file ended after one value of its monster ids.
C4_Witness ==
    /\ pkg = "dun" /\ atEnd /\ NumQ > 0
    /\ Len(file) = PlaneStartByte(2) + 2
    /\ pc = "done" /\ ret = "EOF"

(***************************************************************************)
(* C5.  A square id whose decremented value is not an index of the square  *)
(* table makes Parse (either variant) return an error to its caller; the   *)
(* call does not abort.                                                    *)
(***************************************************************************)
\* Parse has looked up a square id that is outside the square table.
OutOfRangeSquareUsed ==
    \/ /\ pkg = "dun"
       /\ \E m \in 0..(SquaresRead - 1) :
            SquareWord(m) # 0 /\ SquareWord(m) - 1 >= NumSquares
    \/ /\ pkg = "dunmini"
       /\ \E n \in 1..Len(squareIDsPlus1) :
            /\ n <= k \/ (n = k + 1 /\ pc = "panic" /\ panicAt = "squares")
            /\ squareIDsPlus1[n] # 0 /\ squareIDsPlus1[n] - 1 >= NumSquares

C5_OutOfRangeSquareIsError ==
    OutOfRangeSquareUsed => (pc = "done" /\ ret \notin {"none", "nil"})

(***************************************************************************)
(* C6.  No partial output on an error: whenever Parse returns an error,    *)
(* the grid it was given (fresh from New) carries no attribute.            *)
(***************************************************************************)
C6_NoPartialOutput ==
    (pc = "done" /\ ret \notin {"none", "nil"}) => dungeon = New

(***************************************************************************)
(* C7.  Traversal order of dunmini.Parse: row outer, col inner, so that    *)
(* the n-th value of the buffer (n from 0) is expanded at quadrant origin  *)
(* (2*(n mod colCount), 2*(n div colCount)).                               *)
(***************************************************************************)
C7_RowOuterOrder ==
    (pkg = "dunmini" /\ pc = "done" /\ ret = "nil") =>
      \A n \in 0..(colCount * rowCount - 1) :
        squareIDsPlus1[n + 1] # 0 =>
          /\ Has(dungeon, 2 * (n % colCount), 2 * (n \div colCount), "pillarNum")
          /\ dungeon[<<2 * (n % colCount), 2 * (n \div colCount), "pillarNum">>]
               = squares[squareIDsPlus1[n + 1]].PillarNumTop

(***************************************************************************)
(* C8.  Dense trailing planes: after dun.Parse of a file that holds all    *)
(* four planes, the m-th value of each plane (m from 0) is stored at cell  *)
(* (colStart + m mod dunWidth, rowStart + m div dunWidth) under the        *)
(* attribute of the plane, in the order unknown, monster id, object id,    *)
(* transparency; every cell of the dunWidth x dunHeight region has all     *)
(* four attributes (a stored 0 is present) and no cell outside has any.    *)
(***************************************************************************)
WholeFileParsed ==
    /\ pkg = "dun" /\ pc = "done" /\ ret = "nil"
    /\ NumQ > 0 /\ ~atEnd /\ Len(file) = PlaneStartByte(5)

C8_DensePlanes ==
    WholeFileParsed =>
      /\ \A m \in 0..(dunWidth * dunHeight - 1) :
           LET c == colStart + (m % dunWidth)
               r == rowStart + (m \div dunWidth)
           IN /\ Has(dungeon, c, r, "unknown")
              /\ dungeon[<<c, r, "unknown">>] = PlaneWord(1, m)
              /\ Has(dungeon, c, r, "dunMonsterID")
              /\ dungeon[<<c, r, "dunMonsterID">>] = PlaneWord(2, m)
              /\ Has(dungeon, c, r, "dunObjectID")
              /\ dungeon[<<c, r, "dunObjectID">>] = PlaneWord(3, m)
              /\ Has(dungeon, c, r, "transparency")
              /\ dungeon[<<c, r, "transparency">>] = PlaneWord(4, m)
      /\ \A x \in DOMAIN dungeon :
           x[3] # "pillarNum" =>
             /\ x[3] \in {"unknown", "dunMonsterID", "dunObjectID", "transparency"}
             /\ x[1] \in colStart..(colStart + dunWidth - 1)
             /\ x[2] \in rowStart..(rowStart + dunHeight - 1)

\* A whole file of 2x1 squares was parsed away from the origin; the grid
\* holds a stored 0 and a value whose high byte is set.
C8_Witness ==
    /\ WholeFileParsed
    /\ dunQWidth = 2 /\ colStart > 0
    /\ \E x \in DOMAIN dungeon : x[3] = "dunObjectID" /\ dungeon[x] = 0
    /\ \E x \in DOMAIN dungeon : x[3] = "transparency" /\ dungeon[x] >= 256

(***************************************************************************)
(* C9.  Paint order of Image: of two cells with a pillarNum, the one with  *)
(* the smaller row (or the same row and the smaller col) is drawn first;   *)
(* only cells with a pillarNum inside the colCount x rowCount range are    *)
(* drawn, and when Image returns every such cell was drawn exactly once.   *)
(***************************************************************************)
PillarDraws == { a \in 1..Len(log) : log[a].kind = "pillar" }

C9_PaintOrder ==
    /\ \A a \in PillarDraws, b \in PillarDraws :
         a < b => \/ log[a].row < log[b].row
                  \/ log[a].row = log[b].row /\ log[a].col < log[b].col
    /\ \A a \in PillarDraws :
         /\ log[a].col \in 0..(imgCols - 1)
         /\ log[a].row \in 0..(imgRows - 1)
         /\ Has(dungeon, log[a].col, log[a].row, "pillarNum")
         /\ log[a].id = dungeon[<<log[a].col, log[a].row, "pillarNum">>]
    /\ pc = "imgdone" =>
         \A c \in 0..(imgCols - 1), r \in 0..(imgRows - 1) :
           Has(dungeon, c, r, "pillarNum") =>
             Cardinality({ a \in PillarDraws : log[a].col = c /\ log[a].row = r }) = 1

\* Image has returned after it drew cells of two rows and of two columns,
\* and passed over a cell without a pillarNum and left one outside its range.
C9_Witness ==
    /\ pc = "imgdone"
    /\ \E a \in PillarDraws, b \in PillarDraws :
         log[a].row < log[b].row /\ log[a].col > log[b].col
    /\ \E c \in 0..(imgCols - 1), r \in 0..(imgRows - 1) : ~Has(dungeon, c, r, "pillarNum")
    /\ \E x \in CellsWith("pillarNum") : x[1] >= imgCols

(***************************************************************************)
(* C10.  Arch overlay: for a cell whose pillarNum is an arch pillar        *)
(* ({11,70,210,320,340,417}: arch 0, {10,248,324,330,343,420}: arch 1,     *)
(* 254: arch 3, 258: arch 4) Image draws the pillar and then, before any   *)
(* other cell, the arch into the same rectangle; for every other pillarNum *)
(* it draws the pillar only.                                               *)
(***************************************************************************)
ArchOf(pillarNum) ==
    CASE pillarNum \in {11, 70, 210, 320, 340, 417} -> 0
      [] pillarNum \in {10, 248, 324, 330, 343, 420} -> 1
      [] pillarNum = 254 -> 3
      [] pillarNum = 258 -> 4
      [] OTHER -> -1

C10_ArchOverlay ==
    \A a \in 1..Len(log) :
      /\ log[a].kind = "pillar" =>
           IF ArchOf(log[a].id) >= 0
           THEN /\ a < Len(log)
                /\ log[a + 1] = [kind |-> "arch", col |-> log[a].col, row |-> log[a].row,
                                 rect |-> log[a].rect, id |-> ArchOf(log[a].id)]
           ELSE a = Len(log) \/ log[a + 1].kind = "pillar"
      /\ log[a].kind = "arch" => (a > 1 /\ log[a - 1].kind = "pillar")

\* Image has returned after it drew arches 0, 1, 3 and 4 and a pillar that
\* has no arch.
C10_Witness ==
    /\ pc = "imgdone"
    /\ \A id \in {0, 1, 3, 4} : \E a \in 1..Len(log) : log[a].kind = "arch" /\ log[a].id = id
    /\ \E a \in PillarDraws : ArchOf(log[a].id) < 0

(***************************************************************************)
(* Single calls of the functions of the package: the arguments are drawn   *)
(* from small sets and `call` records them with what the function returns. *)
(***************************************************************************)
\* What a single call leaves alone: the sequential process.
procVars == <<pkg, pc, ret, panicAt, dungeon, parseVars, i, j, col, row, miniVars,
              arches, decodes, imageVars, calls, dumps>>

\* The heights pillars[0].Height() returns: a pillar as high as a block, and
\* the pillars of l1.min.
PillarHeights == { BlockHeight, PillarHeight }

\* The widths GetPillarRect is called with: those of Image's canvases, and
\* odd ones.
MapWidths == { MapWidth(cc, rc) + odd : cc \in 0..MaxDim, rc \in 0..MaxDim, odd \in 0..1 }

\* GetPillarRect(col, row, mapWidth, pillarHeight)
CallGetPillarRect ==
    /\ \E c \in 0..MaxDim, r \in 0..MaxDim, mapWidth \in MapWidths,
          pillarHeight \in PillarHeights :
         call' = [op |-> "GetPillarRect", col |-> c, row |-> r, mapWidth |-> mapWidth,
                  pillarHeight |-> pillarHeight,
                  rect |-> GetPillarRect(c, r, mapWidth, pillarHeight)]
    /\ UNCHANGED <<procVars, par>>

\* The canvas of Image(colCount, rowCount, pillars, levelFrames), and the
\* rectangle of every cell its loops visit.
CallImage ==
    /\ \E cc \in 0..MaxDim, rc \in 0..MaxDim, pillarHeight \in PillarHeights :
         LET mapWidth == MapWidth(cc, rc)
             mapHeight == MapHeight(cc, rc, pillarHeight)
         IN call' = [op |-> "Image", colCount |-> cc, rowCount |-> rc,
                     pillarHeight |-> pillarHeight,
                     dst |-> [minX |-> 0, minY |-> 0, maxX |-> mapWidth, maxY |-> mapHeight],
                     rects |-> [x \in (0..(cc - 1)) \X (0..(rc - 1)) |->
                                  GetPillarRect(x[1], x[2], mapWidth, pillarHeight)]]
    /\ UNCHANGED <<procVars, par>>

\* The relative paths mpq.GetRelPath returns, element by element: DUN files
\* of every level directory, of an unknown one and of a directory below a
\* level directory, and a file without a directory.
RelPaths ==
    { <<"levels", d, f>> : d \in {"l1data", "l2data", "l3data", "l4data", "towndata", "unknown"},
                           f \in {"foo.dun", "bar.dun"} }
      \cup { <<"levels", "l1data", "sub", "foo.dun">>, <<"foo.dun">> }

\* The path whose elements are p, each followed by a slash.
RECURSIVE Join(_)
Join(p) == IF Len(p) = 0 THEN "" ELSE Join(SubSeq(p, 1, Len(p) - 1)) \o p[Len(p)] \o "/"

\* path.Split: the directory is the path up to and including its last slash,
\* the file is what follows.
pathSplit(p) == [dir |-> Join(SubSeq(p, 1, Len(p) - 1)), file |-> p[Len(p)]]

\* GetLevelName(dunName): mpq.GetRelPath fails, or the directory of the
\* relative path decides.
CallGetLevelName ==
    /\ \E relErr \in {"nil", "ioerr"}, relDunPath \in RelPaths :
         LET dunDir == pathSplit(relDunPath).dir
             res == IF relErr # "nil" THEN [nameWithoutExt |-> "", err |-> relErr]
                    ELSE GetLevelName(dunDir)
         IN call' = [op |-> "GetLevelName", relErr |-> relErr, relDunPath |-> relDunPath,
                     nameWithoutExt |-> res.nameWithoutExt, err |-> res.err]
    /\ UNCHANGED <<procVars, par>>

CallNext ==
    \/ CallGetPillarRect
    \/ CallImage
    \/ CallGetLevelName

CallSpec == Init /\ [][CallNext]_vars

(***************************************************************************)
(* C11.  GetPillarRect is translation-consistent: one col further moves    *)
(* the rectangle by +BlockWidth in x and +BlockHeight/2 in y, one row      *)
(* further by -BlockWidth in x and +BlockHeight/2 in y; cell (0, 0) is at  *)
(* minX = mapWidth/2 - BlockWidth, minY = 0, and no cell has a smaller     *)
(* minY.                                                                   *)
(***************************************************************************)
C11_TranslationConsistent ==
    call.op = "GetPillarRect" =>
      LET mw == call.mapWidth
          ph == call.pillarHeight
          here == call.rect
          colNext == GetPillarRect(call.col + 1, call.row, mw, ph)
          rowNext == GetPillarRect(call.col, call.row + 1, mw, ph)
      IN /\ colNext.minX - here.minX = BlockWidth
         /\ colNext.minY - here.minY = BlockHeight \div 2
         /\ rowNext.minX - here.minX = -BlockWidth
         /\ rowNext.minY - here.minY = BlockHeight \div 2
         /\ here.minX = mw \div 2 - BlockWidth + (call.col - call.row) * BlockWidth
         /\ here.minY = (call.col + call.row) * (BlockHeight \div 2)
         /\ (call.col = 0 /\ call.row = 0) =>
              (here.minY = 0 /\ here.minX = mw \div 2 - BlockWidth)
         /\ here.minY >= 0
         /\ here.minY = 0 => (call.col = 0 /\ call.row = 0)

\* GetPillarRect was called for a cell away from the diagonal, on a canvas
\* of odd width.
C11_Witness ==
    /\ call.op = "GetPillarRect"
    /\ call.col = 1 /\ call.row = 3
    /\ call.mapWidth % 2 = 1 /\ call.mapWidth > 2 * BlockWidth
    /\ call.rect.minX < 0

(***************************************************************************)
(* C12.  Canvas sizing: with maxCount the larger of colCount and rowCount, *)
(* Image's canvas is 2*maxCount*BlockWidth wide and                        *)
(* 2*maxCount*(BlockHeight/2) + (pillarHeight - BlockHeight) high, so that *)
(* a grid that is not square gets the canvas of the square one.            *)
(***************************************************************************)
C12_CanvasSizing ==
    call.op = "Image" =>
      LET maxCount == IF call.colCount >= call.rowCount THEN call.colCount ELSE call.rowCount
      IN /\ call.dst.minX = 0 /\ call.dst.minY = 0
         /\ call.dst.maxX = 2 * maxCount * BlockWidth
         /\ call.dst.maxY = 2 * maxCount * (BlockHeight \div 2)
                              + (call.pillarHeight - BlockHeight)
         /\ call.dst.maxX = MapWidth(maxCount, maxCount)
         /\ call.dst.maxY = MapHeight(maxCount, maxCount, call.pillarHeight)

\* The canvas of a grid of 2 cols and 5 rows.
C12_Witness ==
    /\ call.op = "Image"
    /\ call.colCount = 2 /\ call.rowCount = 5
    /\ call.dst.maxX = 320

(***************************************************************************)
(* C14.  GetLevelName: the directory of the relative path of a DUN file    *)
(* decides the level name, levels/l1data/ -> l1, levels/l2data/ -> l2,     *)
(* levels/l3data/ -> l3, levels/l4data/ -> l4, levels/towndata/ -> town,   *)
(* whatever the file is called; every other directory gives an error and   *)
(* the empty name.                                                         *)
(***************************************************************************)
LevelOfDir(d) ==
    CASE d = "l1data" -> "l1"
      [] d = "l2data" -> "l2"
      [] d = "l3data" -> "l3"
      [] d = "l4data" -> "l4"
      [] d = "towndata" -> "town"
      [] OTHER -> ""

C14_LevelName ==
    (call.op = "GetLevelName" /\ call.relErr = "nil") =>
      LET p == call.relDunPath
      IN IF Len(p) = 3 /\ p[1] = "levels" /\ LevelOfDir(p[2]) # ""
         THEN call.nameWithoutExt = LevelOfDir(p[2]) /\ call.err = "nil"
         ELSE call.nameWithoutExt = "" /\ call.err # "nil"

\* levels/l2data/foo.dun resolved to l2.
C14_Witness ==
    /\ call.op = "GetLevelName"
    /\ call.relDunPath = <<"levels", "l2data", "foo.dun">>
    /\ call.nameWithoutExt = "l2" /\ call.err = "nil"

(***************************************************************************)
(* C17.  The canvas covers what is painted: for every cell (col, row) with *)
(* 0 <= col < colCount and 0 <= row < rowCount the rectangle GetPillarRect *)
(* returns lies inside the canvas of Image.                                *)
(***************************************************************************)
C17_CanvasCoversRects ==
    call.op = "Image" =>
      \A x \in DOMAIN call.rects :
        /\ x[1] \in 0..(call.colCount - 1) /\ x[2] \in 0..(call.rowCount - 1)
        /\ call.dst.minX <= call.rects[x].minX
        /\ call.rects[x].minX < call.rects[x].maxX
        /\ call.rects[x].maxX <= call.dst.maxX
        /\ call.dst.minY <= call.rects[x].minY
        /\ call.rects[x].minY < call.rects[x].maxY
        /\ call.rects[x].maxY <= call.dst.maxY

\* A canvas of 2 cols and 5 rows, whose corner cells touch its left edge and
\* stay short of its right edge.
C17_Witness ==
    /\ call.op = "Image"
    /\ call.colCount = 2 /\ call.rowCount = 5
    /\ Cardinality(DOMAIN call.rects) = 10
    /\ call.rects[<<0, 4>>].minX = 0
    /\ call.rects[<<1, 0>>].maxX < call.dst.maxX

(***************************************************************************)
(* C13.  The arches are decoded lazily and once: in a process that calls   *)
(* Image again and again, the first call decodes the arches and every      *)
(* later call finds them and decodes nothing; when the decoding fails the  *)
(* process ends, and no image was drawn.                                   *)
(***************************************************************************)
C13_DecodedOnce ==
    /\ decodes <= 1
    /\ calls = 0 => (arches = "nil" /\ decodes = 0)
    /\ (calls >= 1 /\ pc # "fatal") => (arches = "decoded" /\ decodes = 1)
    /\ pc = "fatal" => (calls = 1 /\ arches = "nil" /\ decodes = 0 /\ log = <<>>)

C13_ReusedAfterwards ==
    /\ arches = "decoded" => (arches' = "decoded" /\ decodes' = decodes)
    /\ pc = "fatal" => UNCHANGED vars

C13_LazyOverlayCache == []C13_DecodedOnce /\ [][C13_ReusedAfterwards]_vars

\* The second Image call of the process has returned, and it drew an arch.
C13_Witness ==
    /\ pc = "imgdone" /\ calls = 2 /\ decodes = 1
    /\ \E a \in 1..Len(log) : log[a].kind = "arch"

(***************************************************************************)
(* C15.  A pillarNum of -1 is transparent: Image draws nothing for a cell  *)
(* that holds -1, as for a cell without a pillarNum, and goes on to the    *)
(* next cell.                                                              *)
(***************************************************************************)
C15_MinusOneIsTransparent ==
    \A x \in DOMAIN dungeon :
      (x[3] = "pillarNum" /\ dungeon[x] = -1) =>
        /\ \A a \in 1..Len(log) : ~(log[a].col = x[1] /\ log[a].row = x[2])
        /\ ~(pc = "panic" /\ panicAt = "pillars" /\ col = x[1] /\ row = x[2])

(***************************************************************************)
(* C16.  A fresh grid per file: New returns a grid without attributes, and *)
(* dungeonDump parses every file into a new grid.  Whatever files were     *)
(* dumped before, the grid Image gets holds exactly the pillar cells of    *)
(* the buffer of its own file, and Image does not change the grid.         *)
(***************************************************************************)
\* The grid dunmini.Parse makes of the buffer, starting from New: value n (n
\* from 0) is expanded at (2*(n div rowCount), 2*(n mod rowCount)).
GridOfBuffer ==
    LET at(c, r) == squareIDsPlus1[(c \div 2) * rowCount + (r \div 2) + 1]
        cells == { x \in (0..(2 * colCount - 1)) \X (0..(2 * rowCount - 1)) :
                     at(x[1], x[2]) # 0 }
    IN [ y \in { <<x[1], x[2], "pillarNum">> : x \in cells } |->
           LET sq == squares[at(y[1], y[2])]
           IN CASE y[1] % 2 = 0 /\ y[2] % 2 = 0 -> sq.PillarNumTop
                [] y[1] % 2 = 1 /\ y[2] % 2 = 0 -> sq.PillarNumRight
                [] y[1] % 2 = 0 /\ y[2] % 2 = 1 -> sq.PillarNumLeft
                [] y[1] % 2 = 1 /\ y[2] % 2 = 1 -> sq.PillarNumBottom ]

\* Image was called on the grid, or is about to be.
Composited == pkg = "dunmini" /\ (pc \in {"image", "imgdone", "fatal"} \/ (pc = "done" /\ ret = "nil"))

C16_OwnCellsOnly ==
    /\ pc = "idle" => DOMAIN dungeon = {}
    /\ Composited => dungeon = GridOfBuffer

\* A step of Image: into or inside its loops, to its return, or to its end
\* by log.Fatalln or by a panic.
C16_ImageReadsOnly ==
    (pc' \in {"image", "imgdone", "fatal"} \/ (pc = "image" /\ pc' = "panic"))
      => dungeon' = dungeon

C18_WritesInsideGrid ==
    /\ \A x \in DOMAIN dungeon : InGrid(x[1], x[2])
    /\ ~(pc = "panic" /\ panicAt = "dungeon")

Next ==
    \/ ParseOpen
    \/ ParseHeader
    \/ ParseSquare
    \/ ParsePlane
    \/ MiniStart
    \/ MiniSquare
    \/ ImageStart
    \/ ImageCell
    \/ NextDump

Spec == Init /\ [][Next]_vars

(***************************************************************************)
(* A client of the package that marks cells of a parsed grid transparent   *)
(* before it calls Image.                                                  *)
(***************************************************************************)
\* The cells the client marks.
TransparentCells == { <<0, 0>>, <<1, 1>> }

\* dungeon[c][r]["pillarNum"] = -1, the transparent pillar of the comment on
\* type Dungeon; one cell per grid.
StoreTransparent ==
    /\ pkg = "dunmini" /\ pc = "done" /\ ret = "nil"
    /\ \A x \in DOMAIN dungeon : dungeon[x] # -1
    /\ \E x \in TransparentCells : dungeon' = Put(dungeon, x[1], x[2], "pillarNum", -1)
    /\ UNCHANGED <<pkg, pc, ret, panicAt, otherVars, calls, dumps, parseVars, i, j, col,
                   row, miniVars, arches, decodes, imageVars>>

ClientNext ==
    \/ Next
    \/ StoreTransparent

ClientSpec == Init /\ [][ClientNext]_vars

(***************************************************************************)
(* Two Image calls that run in parallel in one process, as goroutines of a *)
(* caller that dumps its files in parallel.  The package variable `arches` *)
(* is read and written without synchronisation: the steps of the two calls *)
(* interleave, and the assignment of the slice (pointer, then length) can  *)
(* be seen half done ("torn": not nil, and no element yet).                *)
(***************************************************************************)
\* What the parallel calls leave alone.
parFrame == <<pkg, pc, ret, panicAt, dungeon, parseVars, i, j, col, row, miniVars,
              imageVars, calls, dumps, call>>

Goroutines == {1, 2}

\* No call has ended the process (log.Fatalln, or a panic).
ParRunning ==
    /\ par # NoPar
    /\ \A g \in Goroutines : par[g].pc \notin {"fatal", "panic"}

\* Goroutine g goes on at `at`.
ParGoto(g, at) == par' = [par EXCEPT ![g].pc = at]

\* The caller starts the two calls while arches is nil; hasArch says whether
\* the grid of a call holds an arch pillar inside the range of its loops.
ParGo ==
    /\ pkg = "dunmini" /\ pc = "idle" /\ par = NoPar /\ arches = "nil"
    /\ \E a1 \in BOOLEAN, a2 \in BOOLEAN :
         par' = << [pc |-> "test", hasArch |-> a1, inited |-> FALSE],
                   [pc |-> "test", hasArch |-> a2, inited |-> FALSE] >>
    /\ UNCHANGED <<parFrame, arches, decodes>>

\* if arches == nil
ParTest ==
    /\ ParRunning
    /\ \E g \in Goroutines :
         /\ par[g].pc = "test"
         /\ ParGoto(g, IF ArchesNil(arches) THEN "conf" ELSE "paint")
    /\ UNCHANGED <<parFrame, arches, decodes>>

\* cel.GetConf("l1s.cel", "levels/l1data/l1.pal"), log.Fatalln on an error.
ParGetConf ==
    /\ ParRunning
    /\ \E g \in Goroutines, confOk \in BOOLEAN :
         /\ par[g].pc = "conf"
         /\ ParGoto(g, IF confOk THEN "decode" ELSE "fatal")
    /\ UNCHANGED <<parFrame, arches, decodes>>

\* cel.DecodeAll("l1s.cel", conf), log.Fatalln on an error.
ParDecodeAll ==
    /\ ParRunning
    /\ \E g \in Goroutines, decodeOk \in BOOLEAN :
         /\ par[g].pc = "decode"
         /\ ParGoto(g, IF decodeOk THEN "assign" ELSE "fatal")
         /\ decodes' = (IF decodeOk THEN decodes + 1 ELSE decodes)
    /\ UNCHANGED <<parFrame, arches>>

\* arches, err = ...: the first word of the slice is written.
ParAssignPtr ==
    /\ ParRunning
    /\ \E g \in Goroutines :
         /\ par[g].pc = "assign"
         /\ arches' = (IF arches = "nil" THEN "torn" ELSE arches)
         /\ ParGoto(g, "assigned")
    /\ UNCHANGED <<parFrame, decodes>>

\* arches, err = ...: the slice is written whole.
ParAssignLen ==
    /\ ParRunning
    /\ \E g \in Goroutines :
         /\ par[g].pc = "assigned"
         /\ arches' = "decoded"
         /\ par' = [par EXCEPT ![g].pc = "paint", ![g].inited = TRUE]
    /\ UNCHANGED <<parFrame, decodes>>

\* The loops of Image: a call whose grid holds an arch pillar reads
\* arches[archID], which panics while the slice has no element.
ParPaint ==
    /\ ParRunning
    /\ \E g \in Goroutines :
         /\ par[g].pc = "paint"
         /\ ParGoto(g, IF par[g].hasArch /\ arches # "decoded" THEN "panic" ELSE "done")
    /\ UNCHANGED <<parFrame, arches, decodes>>

ParNext ==
    \/ ParGo
    \/ ParTest
    \/ ParGetConf
    \/ ParDecodeAll
    \/ ParAssignPtr
    \/ ParAssignLen
    \/ ParPaint

ParSpec == Init /\ [][ParNext]_vars

(***************************************************************************)
(* C19.  Two Image calls in parallel initialise the arches at most once:   *)
(* in no interleaving do both calls decode the arches and assign them.     *)
(***************************************************************************)
C19_InitAtMostOnce ==
    /\ decodes <= 1
    /\ par # NoPar => ~(\A g \in Goroutines : par[g].inited)
====
